---- MODULE Spec2Model ----
(***************************************************************************)
(* Model of src/index.ts: the Oak handlers registerUser, loginUser,        *)
(* getAllUsers, updateUser and deleteUser over one Deno KV store.          *)
(*                                                                         *)
(* Every request is an asynchronous task.  A task runs without             *)
(* interruption between two awaits; each action below is one such segment, *)
(* so tasks interleave exactly at the awaits on kv.get, kv.set, kv.delete, *)
(* kv.list and bcrypt.hash / bcrypt.compare.                               *)
(*                                                                         *)
(* JavaScript values are records [t, v]: t is the typeof tag and v the     *)
(* characters of a string (or the digits of a number).  The bodies of the  *)
(* library calls (bcrypt, uuid, Deno KV) are modelled by their contract.   *)
(* In Spec, PairSpec, SeqSpec and RegSpec the calls succeed; FaultSpec     *)
(* adds the rejection of any awaited call, which the catch block of the    *)
(* handler answers with 500.  A rejected kv.set or kv.delete has not       *)
(* committed: Deno KV applies a single-key write atomically or not at all. *)
(***************************************************************************)
EXTENDS Integers, Sequences, FiniteSets, TLC

\* ------------------------------------------------------------------ bounds
\* Number of requests one behaviour issues.
MaxRequests == 3

\* Number of requests a behaviour of the two-request specification issues.
MaxPairRequests == 2

\* Number of requests a behaviour of the sequential specification issues.
SeqMaxRequests == 2

\* Number of requests a behaviour of the specification with rejections issues.
FaultMaxRequests == 2

\* Number of registrations a behaviour of the registration specification issues.
RegMaxRequests == 1

\* Request tasks that may be in flight at the same time.
Slots == {"t1", "t2"}

\* ------------------------------------------------------- JavaScript values
Undefined == [t |-> "undefined", v |-> <<>>]
Null == [t |-> "null", v |-> <<>>]
Str(s) == [t |-> "string", v |-> s]
Num(d) == [t |-> "number", v |-> d]

\* typeof x === "string"
IsString(x) == x.t = "string"

\* !!x : undefined, null, "" and 0 are falsy.
Truthy(x) ==
  \/ x.t = "string" /\ x.v # <<>>
  \/ x.t = "number" /\ x.v # <<"0">>

WhiteSpace == {" "}

RECURSIVE TrimStart(_)
TrimStart(s) ==
  IF s = <<>> THEN <<>>
  ELSE IF Head(s) \in WhiteSpace THEN TrimStart(Tail(s)) ELSE s

RECURSIVE TrimEnd(_)
TrimEnd(s) ==
  IF s = <<>> THEN <<>>
  ELSE IF s[Len(s)] \in WhiteSpace THEN TrimEnd(SubSeq(s, 1, Len(s) - 1)) ELSE s

\* String.prototype.trim
Trim(s) == TrimEnd(TrimStart(s))

\* /^[^@\s]+@[^@\s]+\.[^@\s]+$/.test(s)
emailRegex(s) ==
  \E i \in 1..Len(s) : \E j \in 1..Len(s) :
    /\ s[i] = "@"
    /\ s[j] = "."
    /\ i >= 2
    /\ j >= i + 2
    /\ j <= Len(s) - 1
    /\ \A k \in 1..Len(s) : s[k] \notin WhiteSpace /\ (k # i => s[k] # "@")

\* /^[+0-9]+$/.test(s)
phoneRegex(s) ==
  /\ Len(s) >= 1
  /\ \A k \in 1..Len(s) : s[k] \in {"+", "0", "1", "2", "3", "4", "5", "6", "7", "8", "9"}

MinPasswordLen == 6
MinPhoneLen == 7

\* ----------------------------------------------------------- validateUserData
ErrFirstName == "firstName bo'sh bo'lmasligi kerak"
ErrLastName == "lastName bo'sh bo'lmasligi kerak"
ErrEmailType == "email bo'sh yoki noto'g'ri tipda"
ErrEmailFormat == "email noto'g'ri formatda"
ErrPassword == "Parol kamida 6 ta belgidan iborat bo'lishi kerak"
ErrPhoneShort == "phone noto'g'ri yoki juda qisqa"
ErrPhoneChars == "phone faqat raqam (va +) belgilaridan iborat bo'lishi kerak"
ErrAddress == "address bo'sh bo'lmasligi kerak"

\* !x || typeof x !== "string" || !x.trim()
BlankField(x) == ~Truthy(x) \/ ~IsString(x) \/ Trim(x.v) = <<>>

PasswordTooShort(x) == ~Truthy(x) \/ ~IsString(x) \/ Len(x.v) < MinPasswordLen

PhoneTooShort(x) == ~Truthy(x) \/ ~IsString(x) \/ Len(x.v) < MinPhoneLen

\* Mutant of validateUserData: the checks are chained with else, so only the
\* first violation is reported.
validateUserDataFirstOnly(data) ==
  IF BlankField(data.firstName) THEN <<ErrFirstName>>
  ELSE IF BlankField(data.lastName) THEN <<ErrLastName>>
  ELSE IF ~Truthy(data.email) \/ ~IsString(data.email) THEN <<ErrEmailType>>
  ELSE IF ~emailRegex(data.email.v) THEN <<ErrEmailFormat>>
  ELSE IF PasswordTooShort(data.password) THEN <<ErrPassword>>
  ELSE IF PhoneTooShort(data.phone) THEN <<ErrPhoneShort>>
  ELSE IF ~phoneRegex(data.phone.v) THEN <<ErrPhoneChars>>
  ELSE IF BlankField(data.address) THEN <<ErrAddress>>
  ELSE <<>>

validateUserData(data) ==
  (IF BlankField(data.firstName) THEN <<ErrFirstName>> ELSE <<>>)
  \o (IF BlankField(data.lastName) THEN <<ErrLastName>> ELSE <<>>)
  \o (IF ~Truthy(data.email) \/ ~IsString(data.email) THEN <<ErrEmailType>>
      ELSE IF ~emailRegex(data.email.v) THEN <<ErrEmailFormat>> ELSE <<>>)
  \o (IF PasswordTooShort(data.password) THEN <<ErrPassword>> ELSE <<>>)
  \o (IF PhoneTooShort(data.phone) THEN <<ErrPhoneShort>>
      ELSE IF ~phoneRegex(data.phone.v) THEN <<ErrPhoneChars>> ELSE <<>>)
  \o (IF BlankField(data.address) THEN <<ErrAddress>> ELSE <<>>)

\* ------------------------------------------------------------------ bcrypt
\* v4.generate(): a random salt; two calls may, with small probability, agree.
Salts == {"x", "y"}

Alphabet == <<"p", "a", "s", "w", "1", "2">>

CharIndex(c) == CHOOSE i \in 1..Len(Alphabet) : Alphabet[i] = c

SaltShift(salt) == IF salt = "x" THEN 1 ELSE 2

\* One character of the digest: the plaintext character moved by the salt.
Scramble(c, salt) == Alphabet[((CharIndex(c) - 1 + SaltShift(salt)) % Len(Alphabet)) + 1]

\* bcrypt.hash(password, salt): a digest string that carries its salt.
bcryptHash(password, salt) ==
  Str(<<"$", salt>> \o [i \in 1..Len(password.v) |-> Scramble(password.v[i], salt)])

\* bcrypt.compare(password, digest): re-hash with the digest's salt and compare.
bcryptCompare(password, digest) ==
  /\ IsString(digest)
  /\ Len(digest.v) >= 2
  /\ digest.v[1] = "$"
  /\ digest.v[2] \in Salts
  /\ bcryptHash(password, digest.v[2]) = digest

\* ------------------------------------------------------------------ inputs
E1 == <<"a", "@", "b", ".", "c">>
E2 == <<"d", "@", "b", ".", "c">>
N1 == <<"A">>
N2 == <<"B", " ">>
Blank == <<" ">>
P1 == <<"p", "a", "s", "s", "w", "1">>
P2 == <<"p", "a", "s", "s", "w", "2">>
PShort == <<"p", "a", "s", "s", "w">>
Ph1 == <<"+", "1", "2", "3", "4", "5", "6">>
Ph2 == <<"9", "9", "8", "9", "0", "0", "1">>
PhShort == <<"+", "1", "1", "1">>
Seven == Num(<<"1", "2", "3", "4", "5", "6", "7">>)

Fields == {"firstName", "lastName", "email", "password", "phone", "address"}

NoBody == [f \in Fields |-> Undefined]

Body(fn, ln, em, pw, ph, ad) ==
  [firstName |-> fn, lastName |-> ln, email |-> em, password |-> pw,
   phone |-> ph, address |-> ad]

BodyA(e) == Body(Str(N1), Str(N1), Str(e), Str(P1), Str(Ph1), Str(N1))
BodyB(e) == Body(Str(N2), Str(N2), Str(e), Str(P2), Str(Ph2), Str(N2))

Request(kind, params, body) == [kind |-> kind, params |-> params, body |-> body]

RegisterRequests ==
  {Request("register", Undefined, b) :
     b \in {BodyA(E1), BodyB(E1), BodyA(E2), [BodyB(E1) EXCEPT !.password = Str(PShort)]}}

LoginRequests ==
  {Request("login", Undefined, [NoBody EXCEPT !.email = Str(E1), !.password = pw]) :
     pw \in {Str(P1), Str(P2), Undefined, Str(<<>>)}}
  \cup {Request("login", Undefined, [NoBody EXCEPT !.password = Str(P1)])}

ListRequests == {Request("list", Undefined, NoBody)}

UpdateRequests ==
  {Request("update", Str(E1), b) :
     b \in {[NoBody EXCEPT !.phone = Str(Ph2)],
            [NoBody EXCEPT !.address = Str(N2)],
            [NoBody EXCEPT !.password = Str(P2)],
            [NoBody EXCEPT !.password = Str(PShort), !.firstName = Str(Blank)]}}
  \cup {Request("update", Str(E2), [NoBody EXCEPT !.phone = Str(PhShort), !.email = Str(E1)])}

DeleteRequests == {Request("delete", Str(e), NoBody) : e \in {E1, E2}}

\* The requests of the concurrent specification.
Requests ==
  RegisterRequests \cup LoginRequests \cup ListRequests \cup UpdateRequests
  \cup DeleteRequests

\* The requests of the sequential specification: updates with every combination
\* of absent, empty, blank and usable fields, and one of each other operation.
TextValues == {Undefined, Str(Blank), Str(N2)}

SeqUpdateBodies ==
  {Body(fn, ln, Undefined, pw, ph, ad) :
     fn \in TextValues \cup {Str(<<>>)}, ln \in {Undefined, Str(N2)},
     pw \in {Undefined, Str(PShort), Str(P2)},
     ph \in {Undefined, Str(Blank), Str(PhShort)}, ad \in {Undefined, Str(N2)}}
  \cup {[f \in Fields |-> Seven]}

SeqRequests ==
  {Request("update", Str(E1), b) : b \in SeqUpdateBodies}
  \cup {Request("register", Undefined, BodyB(E1)),
        Request("login", Undefined, [NoBody EXCEPT !.email = Str(E1), !.password = Str(P2)]),
        Request("list", Undefined, NoBody),
        Request("delete", Str(E1), NoBody)}

\* The key ["users", email] a request works on.
KeyOf(r) == IF r.kind \in {"update", "delete"} THEN r.params ELSE r.body.email

\* ------------------------------------------------------------------- state
VARIABLES
  kv,       \* the Deno KV store: key -> stored user object
  pc,       \* per task: the await it is suspended at
  req,      \* per task: the request it handles
  loc,      \* per task: existingUser / user / updated / hashedPwd
  resp,     \* per task: response.status and response.body
  started,  \* number of requests issued so far
  pre,      \* history: the store when the task's request was issued
  overlap,  \* history: kinds of the requests on the same key that ran meanwhile
  auth,     \* history: per key, the password last confirmed by a 200 response
  lauth,    \* history: per login task, auth of its key when it was issued
  failed    \* history: per task, the await whose rejection its catch block handled

vars == <<kv, pc, req, loc, resp, started, pre, overlap, auth, lauth, failed>>

\* kv.get(["users", k]).value
KvGet(store, k) == IF k \in DOMAIN store THEN store[k] ELSE Null

\* Mutant of KvSet: the write replaces the whole "users" prefix.
KvSetAlone(store, k, value) == [x \in {k} |-> value]

\* kv.set(["users", k], value)
KvSet(store, k, value) ==
  [x \in DOMAIN store \cup {k} |-> IF x = k THEN value ELSE store[x]]

\* Mutant of KvDelete: the delete addresses another key and removes nothing.
KvDeleteOtherKey(store, k) == store

\* kv.delete(["users", k])
KvDelete(store, k) == [x \in DOMAIN store \ {k} |-> store[x]]

\* Keys in the order kv.list({ prefix: ["users"] }) yields them.
KeyOrder == <<Str(E1), Str(E2)>>

NoResponse == [status |-> 0, body |-> [none |-> TRUE]]
Response(status, body) == [status |-> status, body |-> body]

NoAuth == [kind |-> "none"]

InFlight(s) == pc[s] \notin {"idle", "done"}

\* Two requests touch the same record (a listing touches every record).
Related(r1, r2) == r1.kind = "list" \/ r2.kind = "list" \/ KeyOf(r1) = KeyOf(r2)

\* The user object registerUser stores for a valid body.
RegisterRecord(body, hashedPwd) ==
  [firstName |-> body.firstName, lastName |-> body.lastName, email |-> body.email,
   password |-> hashedPwd, phone |-> body.phone, address |-> body.address]

\* The database Deno.openKv() opens is persistent: at start it holds what
\* registrations of earlier runs left in it.
InitStores ==
  {[k \in K |-> RegisterRecord(BodyA(k.v), bcryptHash(Str(P1), "x"))] :
     K \in SUBSET {Str(E1), Str(E2)}}

Init ==
  /\ kv \in InitStores
  /\ pc = [s \in Slots |-> "idle"]
  /\ req = [s \in Slots |-> Request("none", Undefined, NoBody)]
  /\ loc = [s \in Slots |-> Null]
  /\ resp = [s \in Slots |-> NoResponse]
  /\ started = 0
  /\ pre = [s \in Slots |-> kv]
  /\ overlap = [s \in Slots |-> {}]
  /\ auth = [k \in {} |-> NoAuth]
  /\ lauth = [s \in Slots |-> NoAuth]
  /\ failed = [s \in Slots |-> "none"]

\* -------------------------------------------------------- history variables
AuthOf(a, k) == IF k \in DOMAIN a THEN a[k] ELSE NoAuth

\* Request r ends the period in which the confirmed password a is known to be
\* the stored one: a delete, an update that carries a password, and (for a
\* password set by an update) a registration.
Disqualifies(r, a) ==
  \/ r.kind = "delete"
  \/ r.kind = "update" /\ r.body.password # Undefined
  \/ r.kind = "register" /\ a.kind = "upd"

\* Bookkeeping of a request r arriving at task s, the n-th at most.
Issue(s, r, n) ==
  /\ ~InFlight(s)
  /\ started < n
  /\ started' = started + 1
  /\ req' = [req EXCEPT ![s] = r]
  /\ pre' = [pre EXCEPT ![s] = kv]
  /\ overlap' =
       [o \in Slots |->
          IF o = s
          THEN {req[x].kind : x \in {y \in Slots \ {s} : InFlight(y) /\ Related(r, req[y])}}
          ELSE IF InFlight(o) /\ Related(r, req[o]) THEN overlap[o] \cup {r.kind}
          ELSE overlap[o]]
  /\ auth' =
       [k \in DOMAIN auth |->
          IF k = KeyOf(r) /\ Disqualifies(r, auth[k]) THEN NoAuth ELSE auth[k]]
  /\ lauth' =
       [o \in Slots |->
          IF o = s
          THEN (IF r.kind = "login" THEN AuthOf(auth', KeyOf(r)) ELSE NoAuth)
          ELSE IF InFlight(o) /\ KeyOf(req[o]) = KeyOf(r) /\ Disqualifies(r, lauth[o])
          THEN NoAuth
          ELSE lauth[o]]
  /\ failed' = [failed EXCEPT ![s] = "none"]

\* Task s answers 200 having stored the hash of password pw under key k.
Confirm(s, k, kind, pw, old) ==
  LET a == [kind |-> kind, pw |-> pw, old |-> old]
      disturbed == \E o \in Slots \ {s} :
                     InFlight(o) /\ KeyOf(req[o]) = k /\ Disqualifies(req[o], a)
  IN  auth' = [x \in DOMAIN auth \cup {k} |->
                 IF x = k THEN (IF disturbed THEN NoAuth ELSE a) ELSE auth[x]]

\* The handler returns: the response is complete and its locals are gone.
Finish(s, status, body) ==
  /\ pc' = [pc EXCEPT ![s] = "done"]
  /\ resp' = [resp EXCEPT ![s] = Response(status, body)]
  /\ loc' = [loc EXCEPT ![s] = Null]

\* A new handler invocation, with a fresh response, runs up to the await `label`.
Begin(s, label) ==
  /\ pc' = [pc EXCEPT ![s] = label]
  /\ loc' = [loc EXCEPT ![s] = Null]
  /\ resp' = [resp EXCEPT ![s] = NoResponse]

\* The handler suspends at the await `label`, holding `value` in its locals.
Goto(s, label, value) ==
  /\ pc' = [pc EXCEPT ![s] = label]
  /\ loc' = [loc EXCEPT ![s] = value]
  /\ UNCHANGED resp

History == <<started, pre, overlap, auth, lauth, failed>>

\* ------------------------------------------------------------ registerUser
RegisterStart(s, r, n) ==
  /\ r.kind = "register"
  /\ Issue(s, r, n)
  /\ LET errors == validateUserData(r.body)
     IN  IF Len(errors) > 0
         THEN Finish(s, 400, [error |-> "Validation error", details |-> errors])
         ELSE Begin(s, "reg_get")
  /\ UNCHANGED kv

\* Mutant of RegisterGet: the existingUser test is left out.
RegisterGetNoCheck(s) ==
  /\ pc[s] = "reg_get"
  /\ Goto(s, "reg_hash", Null)
  /\ UNCHANGED <<kv, req, History>>

\* Mutant of RegisterGet: the record is written before the existingUser test.
RegisterGetWritesFirst(s) ==
  /\ pc[s] = "reg_get"
  /\ LET existingUser == KvGet(kv, req[s].body.email)
     IN  IF existingUser # Null
         THEN /\ kv' = KvSet(kv, req[s].body.email, RegisterRecord(req[s].body, req[s].body.password))
              /\ Finish(s, 400, [error |-> "Email already exist"])
         ELSE /\ kv' = kv
              /\ Goto(s, "reg_hash", Null)
  /\ UNCHANGED <<req, History>>

RegisterGet(s) ==
  /\ pc[s] = "reg_get"
  /\ LET existingUser == KvGet(kv, req[s].body.email)
     IN  IF existingUser # Null
         THEN Finish(s, 400, [error |-> "Email already exist"])
         ELSE Goto(s, "reg_hash", Null)
  /\ UNCHANGED <<kv, req, History>>

RegisterHash(s) ==
  /\ pc[s] = "reg_hash"
  /\ \E salt \in Salts : Goto(s, "reg_set", bcryptHash(req[s].body.password, salt))
  /\ UNCHANGED <<kv, req, History>>

\* Mutant of RegisterSet: the answer does not wait for kv.set, which is lost.
RegisterSetNotAwaited(s) ==
  /\ pc[s] = "reg_set"
  /\ Finish(s, 200, [message |-> "Registration Success"])
  /\ UNCHANGED <<kv, req, History>>

RegisterSet(s) ==
  /\ pc[s] = "reg_set"
  /\ kv' = KvSet(kv, req[s].body.email, RegisterRecord(req[s].body, loc[s]))
  /\ Finish(s, 200, [message |-> "Registration Success"])
  /\ Confirm(s, req[s].body.email, "reg", req[s].body.password, Null)
  /\ UNCHANGED <<req, started, pre, overlap, lauth, failed>>

\* --------------------------------------------------------------- loginUser
\* Mutant of MissingCredentials: && in place of ||.
MissingCredentialsBoth(body) == ~Truthy(body.email) /\ ~Truthy(body.password)

\* !email || !password
MissingCredentials(body) == ~Truthy(body.email) \/ ~Truthy(body.password)

LoginStart(s, r, n) ==
  /\ r.kind = "login"
  /\ Issue(s, r, n)
  /\ IF MissingCredentials(r.body)
     THEN Finish(s, 400, [error |-> "Email yoki password yo'q"])
     ELSE Begin(s, "login_get")
  /\ UNCHANGED kv

LoginGet(s) ==
  /\ pc[s] = "login_get"
  /\ LET user == KvGet(kv, req[s].body.email)
     IN  IF user = Null
         THEN Finish(s, 404, [error |-> "Email not found"])
         ELSE Goto(s, "login_compare", user)
  /\ UNCHANGED <<kv, req, History>>

LoginCompare(s) ==
  /\ pc[s] = "login_compare"
  /\ LET validPswd == bcryptCompare(req[s].body.password, loc[s].password)
     IN  IF ~validPswd
         THEN Finish(s, 401, [error |-> "Invalid Password"])
         ELSE Finish(s, 200, [message |-> "Login Success"])
  /\ UNCHANGED <<kv, req, History>>

\* ------------------------------------------------------------- getAllUsers
\* Mutant of StripPassword: the stored object is returned as it is.
StripPasswordKeepsAll(value) == value

\* const { password, ...rest } = entry.value
StripPassword(value) == [f \in DOMAIN value \ {"password"} |-> value[f]]

\* Mutant of ListEntries: the loop stops after the first entry.
ListEntriesFirstOnly(store) ==
  LET Present(k) == k \in DOMAIN store
      keys == SelectSeq(KeyOrder, Present)
  IN  [i \in 1..(IF Len(keys) > 0 THEN 1 ELSE 0) |-> StripPassword(store[keys[i]])]

\* The entries kv.list yields: one batch read of the whole prefix, in key order.
ListEntries(store) ==
  LET Present(k) == k \in DOMAIN store
      keys == SelectSeq(KeyOrder, Present)
  IN  [i \in 1..Len(keys) |-> StripPassword(store[keys[i]])]

ListStart(s, r, n) ==
  /\ r.kind = "list"
  /\ Issue(s, r, n)
  /\ Begin(s, "list_read")
  /\ UNCHANGED kv

ListRead(s) ==
  /\ pc[s] = "list_read"
  /\ Finish(s, 200, ListEntries(kv))
  /\ UNCHANGED <<kv, req, History>>

\* -------------------------------------------------------------- updateUser
\* typeof body.f === "string" && body.f.trim()
FieldSupplied(x) == IsString(x) /\ Trim(x.v) # <<>>

\* typeof body.password === "string" && body.password.length >= 6
PasswordSupplied(x) == IsString(x) /\ Len(x.v) >= MinPasswordLen

\* Mutant of MergeFields: email is merged like the other fields.
MergeFieldsWithEmail(value, body) ==
  [f \in DOMAIN value |->
     IF f \in {"firstName", "lastName", "email", "phone", "address"} /\ FieldSupplied(body[f])
     THEN body[f]
     ELSE value[f]]

\* Mutant of MergeFields: the trim() test is left out.
MergeFieldsNoTrim(value, body) ==
  [f \in DOMAIN value |->
     IF f \in {"firstName", "lastName", "phone", "address"} /\ IsString(body[f])
     THEN body[f]
     ELSE value[f]]

\* The assignments to updated.firstName, .lastName, .phone and .address.
MergeFields(value, body) ==
  [f \in DOMAIN value |->
     IF f \in {"firstName", "lastName", "phone", "address"} /\ FieldSupplied(body[f])
     THEN body[f]
     ELSE value[f]]

UpdateStart(s, r, n) ==
  /\ r.kind = "update"
  /\ Issue(s, r, n)
  /\ Begin(s, "upd_get")
  /\ UNCHANGED kv

UpdateGet(s) ==
  /\ pc[s] = "upd_get"
  /\ LET userGet == KvGet(kv, req[s].params)
     IN  IF userGet = Null
         THEN Finish(s, 404, [error |-> "User not found"])
         ELSE IF PasswordSupplied(req[s].body.password)
         THEN Goto(s, "upd_hash", MergeFields(userGet, req[s].body))
         ELSE Goto(s, "upd_set", MergeFields(userGet, req[s].body))
  /\ UNCHANGED <<kv, req, History>>

\* Mutant of UpdateHash: the password is stored as it came.
UpdateHashPlain(s) ==
  /\ pc[s] = "upd_hash"
  /\ Goto(s, "upd_set", [loc[s] EXCEPT !.password = req[s].body.password])
  /\ UNCHANGED <<kv, req, History>>

UpdateHash(s) ==
  /\ pc[s] = "upd_hash"
  /\ \E salt \in Salts :
       Goto(s, "upd_set",
            [loc[s] EXCEPT !.password = bcryptHash(req[s].body.password, salt)])
  /\ UNCHANGED <<kv, req, History>>

UpdateSet(s) ==
  /\ pc[s] = "upd_set"
  /\ kv' = KvSet(kv, req[s].params, loc[s])
  /\ Finish(s, 200, [message |-> "User updated successfully"])
  /\ LET k == req[s].params
         old == KvGet(pre[s], k)
     IN  IF /\ PasswordSupplied(req[s].body.password)
            /\ old # Null
            /\ ~bcryptCompare(req[s].body.password, old.password)
         THEN Confirm(s, k, "upd", req[s].body.password, old.password)
         ELSE UNCHANGED auth
  /\ UNCHANGED <<req, started, pre, overlap, lauth, failed>>

\* -------------------------------------------------------------- deleteUser
DeleteStart(s, r, n) ==
  /\ r.kind = "delete"
  /\ Issue(s, r, n)
  /\ Begin(s, "del_get")
  /\ UNCHANGED kv

DeleteGet(s) ==
  /\ pc[s] = "del_get"
  /\ LET userGet == KvGet(kv, req[s].params)
     IN  IF userGet = Null
         THEN Finish(s, 404, [error |-> "User not found"])
         ELSE Goto(s, "del_delete", Null)
  /\ UNCHANGED <<kv, req, History>>

DeleteDelete(s) ==
  /\ pc[s] = "del_delete"
  /\ kv' = KvDelete(kv, req[s].params)
  /\ Finish(s, 200, [message |-> "User deleted successfully"])
  /\ UNCHANGED <<req, History>>

\* ------------------------------------------------------------ catch blocks
InternalError == [error |-> "Internal Server Error"]

\* The call task s awaits rejects; the catch block logs the error and answers
\* 500.  A kv.set or kv.delete that rejects has not been applied.
Catch(s) ==
  /\ failed' = [failed EXCEPT ![s] = pc[s]]
  /\ Finish(s, 500, InternalError)
  /\ UNCHANGED <<kv, req, started, pre, overlap, auth, lauth>>

RegisterCatch(s) == pc[s] \in {"reg_get", "reg_hash", "reg_set"} /\ Catch(s)

LoginCatch(s) == pc[s] \in {"login_get", "login_compare"} /\ Catch(s)

ListCatch(s) == pc[s] = "list_read" /\ Catch(s)

\* At "upd_get" the rejected call is kv.get or the request.body().value that
\* follows it.
UpdateCatch(s) == pc[s] \in {"upd_get", "upd_hash", "upd_set"} /\ Catch(s)

DeleteCatch(s) == pc[s] \in {"del_get", "del_delete"} /\ Catch(s)

\* request.body().value of registerUser or loginUser rejects (a body that is
\* not JSON): the handler answers 500 before it looks at any field.
RejectedBody(s, r, n) ==
  /\ r.kind \in {"register", "login"}
  /\ Issue(s, r, n)
  /\ Finish(s, 500, InternalError)
  /\ UNCHANGED kv

\* ----------------------------------------------------------- specification
\* A request r arrives, the n-th at most, and its handler runs up to its first
\* await on the store.
Arrive(s, r, n) ==
  \/ RegisterStart(s, r, n)
  \/ LoginStart(s, r, n)
  \/ ListStart(s, r, n)
  \/ UpdateStart(s, r, n)
  \/ DeleteStart(s, r, n)

\* An await of task s completes and its handler runs up to the next one.
Step(s) ==
  \/ RegisterGet(s)
  \/ RegisterHash(s)
  \/ RegisterSet(s)
  \/ LoginGet(s)
  \/ LoginCompare(s)
  \/ ListRead(s)
  \/ UpdateGet(s)
  \/ UpdateHash(s)
  \/ UpdateSet(s)
  \/ DeleteGet(s)
  \/ DeleteDelete(s)

\* Up to MaxRequests requests, any two of them concurrent.
Next ==
  \/ \E s \in Slots : \E r \in Requests : Arrive(s, r, MaxRequests)
  \/ \E s \in Slots : Step(s)

Spec == Init /\ [][Next]_vars

\* The same with up to MaxPairRequests requests.
PairNext ==
  \/ \E s \in Slots : \E r \in Requests : Arrive(s, r, MaxPairRequests)
  \/ \E s \in Slots : Step(s)

PairSpec == Init /\ [][PairNext]_vars

\* One task at a time: no two requests overlap.
SeqTask == "t1"

SeqNext ==
  \/ \E r \in SeqRequests : Arrive(SeqTask, r, SeqMaxRequests)
  \/ Step(SeqTask)

SeqSpec == Init /\ [][SeqNext]_vars

\* Requests whose awaited calls may reject.
FaultRequests ==
  {Request("register", Undefined, BodyB(E1)),
   Request("register", Undefined, [BodyB(E1) EXCEPT !.password = Str(PShort)]),
   Request("login", Undefined, [NoBody EXCEPT !.email = Str(E1), !.password = Str(P1)]),
   Request("list", Undefined, NoBody),
   Request("update", Str(E1), [NoBody EXCEPT !.password = Str(P2)]),
   Request("delete", Str(E1), NoBody)}

FaultNext ==
  \/ \E s \in Slots : \E r \in FaultRequests : Arrive(s, r, FaultMaxRequests)
  \/ \E s \in Slots : \E r \in FaultRequests : RejectedBody(s, r, FaultMaxRequests)
  \/ \E s \in Slots : Step(s)
  \/ \E s \in Slots : RegisterCatch(s)
  \/ \E s \in Slots : LoginCatch(s)
  \/ \E s \in Slots : ListCatch(s)
  \/ \E s \in Slots : UpdateCatch(s)
  \/ \E s \in Slots : DeleteCatch(s)

FaultSpec == Init /\ [][FaultNext]_vars

\* Registrations with every combination of missing, wrongly typed, malformed
\* and valid fields.
BadEmail == <<"a", "@", "b">>
BadPhone == <<"1", "2", "3", "a", "5", "6", "7">>

RegBodies ==
  {Body(fn, ln, em, pw, ph, ad) :
     fn \in {Undefined, Str(Blank), Str(N1)},
     ln \in {Seven, Str(N2)},
     em \in {Undefined, Seven, Str(BadEmail), Str(E1)},
     pw \in {Undefined, Str(PShort), Str(P2)},
     ph \in {Str(PhShort), Str(BadPhone), Str(Ph2)},
     ad \in {Null, Str(N1)}}

RegRequests == {Request("register", Undefined, b) : b \in RegBodies}

RegNext ==
  \/ \E r \in RegRequests : RegisterStart(SeqTask, r, RegMaxRequests)
  \/ RegisterGet(SeqTask)
  \/ RegisterHash(SeqTask)
  \/ RegisterSet(SeqTask)

RegSpec == Init /\ [][RegNext]_vars

\* ------------------------------------------------------------------ claims
Done(s) == pc[s] = "done"

\* The request of task s was issued when its key had no record.
IssuedOnAbsent(s) == KeyOf(req[s]) \notin DOMAIN pre[s]

ValidRegister(r) == r.kind = "register" /\ validateUserData(r.body) = <<>>

DuplicateEmail == Response(400, [error |-> "Email already exist"])

\* Two registrations of one email that ran concurrently, both issued on a store
\* without a record for it, and both answered.
RacingRegisters(s1, s2) ==
  /\ s1 # s2
  /\ Done(s1) /\ Done(s2)
  /\ ValidRegister(req[s1]) /\ ValidRegister(req[s2])
  /\ req[s1].body.email = req[s2].body.email
  /\ IssuedOnAbsent(s1) /\ IssuedOnAbsent(s2)
  /\ "register" \in overlap[s1] /\ "register" \in overlap[s2]

\* C1: two concurrent valid registrations of the same fresh email leave exactly
\* one record, at least one of them is answered 400 "Email already exist", and
\* they are never both answered 200.
C1_OneRegistrationWins ==
  \A s1, s2 \in Slots :
    RacingRegisters(s1, s2) =>
      /\ req[s1].body.email \in DOMAIN kv
      /\ ~(resp[s1].status = 200 /\ resp[s2].status = 200)
      /\ resp[s1] = DuplicateEmail \/ resp[s2] = DuplicateEmail

OnlyField(r, f) ==
  /\ r.kind = "update"
  /\ FieldSupplied(r.body[f])
  /\ \A g \in Fields \ {f} : r.body[g] = Undefined

\* Two updates of one email that ran concurrently, one carrying only a phone
\* and the other only an address, both answered 200.
RacingUpdates(a, b) ==
  /\ a # b
  /\ Done(a) /\ Done(b)
  /\ OnlyField(req[a], "phone") /\ OnlyField(req[b], "address")
  /\ req[a].params = req[b].params
  /\ resp[a].status = 200 /\ resp[b].status = 200
  /\ "update" \in overlap[a] /\ "update" \in overlap[b]

\* C2: after two concurrent updates of one record, one with only a phone and
\* one with only an address, have both answered 200, the stored record carries
\* the phone of the first and the address of the second.
C2_NoLostUpdate ==
  \A a, b \in Slots :
    RacingUpdates(a, b) =>
      /\ req[a].params \in DOMAIN kv
      /\ kv[req[a].params].phone = req[a].body.phone
      /\ kv[req[a].params].address = req[b].body.address

\* C3: the kv.set of updateUser never takes a key from absent to stored.
C3_UpdateNeverCreates ==
  [][\A s \in Slots :
       (pc[s] = "upd_set" /\ pc'[s] = "done" /\ req[s].params \notin DOMAIN kv)
         => req[s].params \notin DOMAIN kv']_vars

\* A registration with valid fields, issued on a store without a record for its
\* email while no other request on that email was running, is answered 200.
FreshRegisterSucceeds ==
  \A s \in Slots :
    (Done(s) /\ ValidRegister(req[s]) /\ IssuedOnAbsent(s) /\ overlap[s] = {})
      => resp[s].status = 200

\* A login issued after a registration of the same email and password was
\* answered 200, with no delete and no update carrying a password since, is
\* answered 200.
LoginAfterRegisterSucceeds ==
  \A s \in Slots :
    (/\ Done(s)
     /\ req[s].kind = "login"
     /\ lauth[s].kind = "reg"
     /\ req[s].body.password = lauth[s].pw)
      => resp[s].status = 200

\* C4: a valid registration of a fresh email is answered 200, and every later
\* login with the same email and password is answered 200 as long as no update
\* with a password and no delete of that email has run in between.
C4_RegisterThenLogin == FreshRegisterSucceeds /\ LoginAfterRegisterSucceeds

\* Every password the requests carry, and every digest bcrypt can make of one.
Passwords == {Str(P1), Str(P2), Str(PShort)}
Digests == {bcryptHash(p, salt) : p \in Passwords, salt \in Salts}

MessageKeys == {"message", "error", "details"}

\* C5: no response body of any handler has a password key or carries a password
\* hash; in particular no element of the getAllUsers result has one.
C5_NoPasswordInResponses ==
  \A s \in Slots :
    Done(s) =>
      IF req[s].kind = "list"
      THEN \A i \in DOMAIN resp[s].body :
             /\ DOMAIN resp[s].body[i] \cap {"password", "passwordHash"} = {}
             /\ \A f \in DOMAIN resp[s].body[i] : resp[s].body[i][f] \notin Digests
      ELSE DOMAIN resp[s].body \subseteq MessageKeys

\* A listing of a store that holds a record has been answered.
C5_Witness ==
  \E s \in Slots :
    /\ Done(s)
    /\ req[s].kind = "list"
    /\ resp[s].status = 200
    /\ Len(resp[s].body) = 2

\* C7: once an update with a password of length >= 6 that differs from the
\* current one has answered 200, a later login with the new password is
\* answered 200 and one with the old password 401, as long as no further
\* update with a password, delete or registration of that email occurs.
C7_LoginAfterPasswordUpdate ==
  \A s \in Slots :
    (Done(s) /\ req[s].kind = "login" /\ lauth[s].kind = "upd") =>
      /\ req[s].body.password = lauth[s].pw => resp[s].status = 200
      /\ bcryptCompare(req[s].body.password, lauth[s].old) => resp[s].status = 401

\* A string that is not empty after trimming.
NonBlankString(x) == x.t = "string" /\ \E i \in 1..Len(x.v) : x.v[i] # " "

LongPassword(x) == x.t = "string" /\ Len(x.v) >= 6

Writers == {"register", "update", "delete"}

\* Task s answers its update, and no other write to the same email ran meanwhile.
UpdateAnswers(s) ==
  /\ pc[s] = "upd_set"
  /\ pc'[s] = "done"
  /\ overlap[s] \cap Writers = {}

\* The record new is the record old with exactly the usable fields of body
\* replaced, and a fresh hash of body.password when that is long enough.
UpdatedFrom(old, new, body) ==
  /\ DOMAIN new = DOMAIN old
  /\ \A f \in {"firstName", "lastName", "phone", "address"} :
       new[f] = IF NonBlankString(body[f]) THEN body[f] ELSE old[f]
  /\ new.email = old.email
  /\ IF LongPassword(body.password)
     THEN \E salt \in Salts : new.password = bcryptHash(body.password, salt)
     ELSE new.password = old.password

\* C6: an update of an existing record that runs without a concurrent request
\* on that email is answered 200 and changes exactly the supplied fields among
\* firstName, lastName, phone, address that are strings non-empty after
\* trimming, and the password hash only for a string password of length >= 6;
\* every other field is as before.
C6_UpdateChangesOnlySupplied ==
  [][\A s \in Slots :
       UpdateAnswers(s) =>
         LET k == req[s].params
         IN  /\ k \in DOMAIN pre[s]
             /\ k \in DOMAIN kv'
             /\ UpdatedFrom(pre[s][k], kv'[k], req[s].body)
             /\ resp'[s].status = 200]_vars

\* An update with a blank firstName, a usable phone and a too short password
\* has been answered and has changed the record.
C6_Witness ==
  \E s \in Slots :
    /\ Done(s)
    /\ req[s].kind = "update"
    /\ resp[s].status = 200
    /\ overlap[s] = {}
    /\ req[s].body.firstName = Str(Blank)
    /\ req[s].body.password = Str(PShort)
    /\ req[s].body.phone = Str(PhShort)
    /\ req[s].params \in DOMAIN kv
    /\ kv[req[s].params] # pre[s][req[s].params]
    /\ kv[req[s].params].phone = Str(PhShort)

\* No other write to the records of task s's request ran while it did.
QuietRun(s) == overlap[s] \cap Writers = {}

\* Task s, in flight, takes the step that completes its response.
Answers(s) == InFlight(s) /\ pc'[s] = "done"

\* A delete issued on an existing record answers 200 and removes the record; one
\* issued on a missing record answers 404 and writes nothing.
DeleteAnswer(s) ==
  (req[s].kind = "delete" /\ Answers(s) /\ QuietRun(s)) =>
    LET k == req[s].params
    IN  IF k \in DOMAIN pre[s]
        THEN /\ resp'[s] = Response(200, [message |-> "User deleted successfully"])
             /\ k \notin DOMAIN kv'
             /\ \A x \in DOMAIN kv \ {k} : x \in DOMAIN kv' /\ kv'[x] = kv[x]
        ELSE /\ resp'[s].status = 404
             /\ kv' = kv

\* A login, update or delete issued for an email without a record answers 404,
\* and a listing has no entry for such an email.
MissingAnswer(s) ==
  /\ (/\ req[s].kind \in {"login", "update", "delete"}
      /\ Answers(s) /\ QuietRun(s) /\ IssuedOnAbsent(s))
       => resp'[s].status = 404
  /\ (req[s].kind = "list" /\ Answers(s) /\ QuietRun(s))
       => \A i \in DOMAIN resp'[s].body : resp'[s].body[i].email \in DOMAIN pre[s]

\* C8: with no other request on the email in flight, deleteUser on an existing
\* email answers 200 and the email has no record afterwards (login, update and
\* delete for it answer 404, getAllUsers omits it); deleteUser on an email
\* without a record answers 404 and leaves the store unchanged.
C8_DeleteThenNotFound ==
  [][\A s \in Slots : DeleteAnswer(s) /\ MissingAnswer(s)]_vars

\* A delete of an existing record was answered 200 and a second delete of the
\* same email, issued after it, was answered 404.
C8_Witness ==
  \E s1, s2 \in Slots :
    /\ s1 # s2
    /\ started = 2
    /\ Done(s1) /\ Done(s2)
    /\ req[s1].kind = "delete" /\ req[s2].kind = "delete"
    /\ req[s1].params = req[s2].params
    /\ overlap[s1] = {} /\ overlap[s2] = {}
    /\ resp[s1].status = 200
    /\ resp[s2].status = 404
    /\ req[s1].params \in DOMAIN pre[s1]
    /\ req[s1].params \notin DOMAIN kv

\* The password that was hashed into a digest.
PlainOf(digest) ==
  CHOOSE p \in Passwords : \E salt \in Salts : bcryptHash(p, salt) = digest

LoginExpected(store, email, password) ==
  IF email \notin DOMAIN store THEN 404
  ELSE IF password = PlainOf(store[email].password) THEN 200
  ELSE 401

Missing(x) == x \in {Undefined, Null, Str(<<>>)}

\* A login is answered 400 exactly when its email or its password is missing.
LoginMissingFields ==
  \A s \in Slots :
    (Done(s) /\ req[s].kind = "login") =>
      (resp[s].status = 400 <=> (Missing(req[s].body.email) \/ Missing(req[s].body.password)))

\* A login with both fields is answered by the record of its email, and no step
\* of a login, nor the arrival of a request, writes to the store.
LoginAnswer ==
  /\ \A s \in Slots :
       (req[s].kind = "login" /\ Answers(s) /\ QuietRun(s)) =>
         resp'[s].status = LoginExpected(kv, req[s].body.email, req[s].body.password)
  /\ \A s \in Slots :
       (req[s].kind = "login" /\ InFlight(s) /\ pc'[s] # pc[s]) => kv' = kv
  /\ started' # started => kv' = kv

\* C9: loginUser with email and password answers 404 when the email has no
\* record, 401 when the password is not the one hashed into the record, 200
\* exactly when it is; it answers 400 when email or password is missing; it
\* never changes the store.
C9_LoginStatus == []LoginMissingFields /\ [][LoginAnswer]_vars

\* Two logins for one stored email have been answered, one 200 and one 401.
C9_Witness ==
  \E s1, s2 \in Slots :
    /\ Done(s1) /\ Done(s2)
    /\ req[s1].kind = "login" /\ req[s2].kind = "login"
    /\ overlap[s1] \cap Writers = {} /\ overlap[s2] \cap Writers = {}
    /\ req[s1].body.email = req[s2].body.email
    /\ resp[s1].status = 200
    /\ resp[s2].status = 401

\* A registration issued while its email has a record, with no delete of that
\* email running meanwhile.
RegisterOnActive(s) ==
  /\ req[s].kind = "register"
  /\ req[s].body.email \in DOMAIN pre[s]
  /\ "delete" \notin overlap[s]

\* C10 as stated: a registration for an email that has a record is answered
\* 400 "Email already exist", whatever its fields are.
C10_AlwaysDuplicateAnswer ==
  \A s \in Slots : (Done(s) /\ RegisterOnActive(s)) => resp[s] = DuplicateEmail

RegisterOnActiveAnswer ==
  \A s \in Slots :
    (Done(s) /\ RegisterOnActive(s)) =>
      IF validateUserData(req[s].body) = <<>>
      THEN resp[s] = DuplicateEmail
      ELSE resp[s] = Response(400, [error |-> "Validation error",
                                    details |-> validateUserData(req[s].body)])

RegisterOnActiveWritesNothing ==
  \A s \in Slots :
    (InFlight(s) /\ pc'[s] # pc[s] /\ RegisterOnActive(s)) => kv' = kv

\* C10, amended: a registration for an email that has a record is answered 400,
\* "Email already exist" when its fields pass validation and "Validation error"
\* otherwise, and leaves the stored record unchanged.
C10_DuplicateOrValidationError ==
  []RegisterOnActiveAnswer /\ [][RegisterOnActiveWritesNothing]_vars

\* A valid registration with other fields than the stored record's has been
\* answered "Email already exist" and the record is as it was.
C10_Witness ==
  \E s \in Slots :
    /\ Done(s)
    /\ RegisterOnActive(s)
    /\ overlap[s] = {}
    /\ req[s].body = BodyB(E1)
    /\ resp[s] = DuplicateEmail
    /\ kv = pre[s]
    /\ kv[Str(E1)].firstName # req[s].body.firstName

\* ^[+0-9]+$ and length >= 7
PhoneDigits == {"+", "0", "1", "2", "3", "4", "5", "6", "7", "8", "9"}

WellFormedPhone(x) ==
  /\ x.t = "string"
  /\ Len(x.v) >= 7
  /\ {x.v[i] : i \in 1..Len(x.v)} \subseteq PhoneDigits

\* C11: every stored record has a phone that matches ^[+0-9]+$ and has length
\* >= 7, and a firstName, lastName and address that are strings non-empty after
\* trimming.
C11_StoredFieldsValid ==
  \A k \in DOMAIN kv :
    /\ WellFormedPhone(kv[k].phone)
    /\ NonBlankString(kv[k].firstName)
    /\ NonBlankString(kv[k].lastName)
    /\ NonBlankString(kv[k].address)

\* Every password the requests carry in any specification.
Plaintexts == Passwords \cup {Seven}

\* C12: every stored record has a password field that is a non-empty string,
\* is a bcrypt digest and is no plaintext password of any request; no register
\* and no update, whatever password its body carries, stores a record without.
C12_StoredHashPresent ==
  \A k \in DOMAIN kv :
    /\ "password" \in DOMAIN kv[k]
    /\ kv[k].password.t = "string"
    /\ kv[k].password.v # <<>>
    /\ kv[k].password \notin Plaintexts
    /\ \E p \in Passwords : bcryptCompare(p, kv[k].password)

\* An update whose password is a number has been answered 200 and the record
\* still carries the digest it had.
C12_Witness ==
  \E s \in Slots :
    /\ Done(s)
    /\ req[s].kind = "update"
    /\ resp[s].status = 200
    /\ req[s].body.password = Seven
    /\ req[s].params \in DOMAIN kv
    /\ kv[req[s].params].password = pre[s][req[s].params].password

\* The record stored under a key carries that key as its email.
EmailIsKey == \A k \in DOMAIN kv : kv[k].email = k

\* A step of an update leaves every other key as it is, and the record under
\* its own key, if there is one afterwards, has that key as its email.
UpdateKeepsEmail ==
  \A s \in Slots :
    (req[s].kind = "update" /\ InFlight(s) /\ pc'[s] # pc[s]) =>
      /\ \A k \in (DOMAIN kv \cup DOMAIN kv') \ {req[s].params} :
           KvGet(kv', k) = KvGet(kv, k)
      /\ req[s].params \in DOMAIN kv' => kv'[req[s].params].email = req[s].params

\* C13: the record stored under key ("users", e) has email e, and no update,
\* whatever its body carries (an email field included), changes the email of a
\* record or moves the record to another key.
C13_EmailImmutable == []EmailIsKey /\ [][UpdateKeepsEmail]_vars

\* An update whose body carries another email has been answered 200; the
\* record is still under its key, with that key as its email.
C13_Witness ==
  \E s \in Slots :
    /\ Done(s)
    /\ req[s].kind = "update"
    /\ resp[s].status = 200
    /\ req[s].body.email = Str(E1)
    /\ req[s].params = Str(E2)
    /\ Str(E2) \in DOMAIN kv
    /\ kv[Str(E2)].email = Str(E2)
    /\ kv[Str(E2)] # pre[s][Str(E2)]
    /\ KvGet(kv, Str(E1)) = KvGet(pre[s], Str(E1))

\* Two deletes of one email that ran concurrently, both issued while the email
\* had a record, with no other request on that email meanwhile.
RacingDeletes(a, b) ==
  /\ a # b
  /\ Done(a) /\ Done(b)
  /\ req[a].kind = "delete" /\ req[b].kind = "delete"
  /\ req[a].params = req[b].params
  /\ req[a].params \in DOMAIN pre[a] /\ req[b].params \in DOMAIN pre[b]
  /\ overlap[a] = {"delete"} /\ overlap[b] = {"delete"}

\* C14: the answers of concurrent requests on one email are those of some
\* sequential order of Absent -> Active -> Absent: of two concurrent deletes of
\* one existing record, one is answered 200 and the other 404.
C14_OneDeleteWins ==
  \A a, b \in Slots :
    RacingDeletes(a, b) => {resp[a].status, resp[b].status} = {200, 404}

\* Every stored record has all six fields.
CompleteRecords == \A k \in DOMAIN kv : DOMAIN kv[k] = Fields

\* The store after the step holds what the completed request of task s writes:
\* the whole registered record, the whole updated record, or no record.
OwnWriteApplied(s) ==
  LET k == KeyOf(req[s])
      body == req[s].body
  IN  CASE req[s].kind = "register" ->
             /\ k \in DOMAIN kv'
             /\ DOMAIN kv'[k] = Fields
             /\ \A f \in Fields \ {"password"} : kv'[k][f] = body[f]
             /\ bcryptCompare(body.password, kv'[k].password)
        [] req[s].kind = "update" ->
             /\ k \in DOMAIN kv'
             /\ DOMAIN kv'[k] = Fields
             /\ \A f \in {"firstName", "lastName", "phone", "address"} :
                  NonBlankString(body[f]) => kv'[k][f] = body[f]
             /\ LongPassword(body.password) => bcryptCompare(body.password, kv'[k].password)
        [] req[s].kind = "delete" -> k \notin DOMAIN kv'
        [] OTHER -> FALSE

\* A register, update or delete answers 200 only in a step after which its own
\* write or delete is in the store.
AppliedBeforeOk ==
  \A s \in Slots :
    (Answers(s) /\ req[s].kind \in Writers /\ resp'[s].status = 200) => OwnWriteApplied(s)

\* Every step of a request, a rejected await included, leaves the record of its
\* email as it was or as the completed request leaves it.
AllOrNothing ==
  \A s \in Slots :
    (InFlight(s) /\ pc'[s] # pc[s] /\ req[s].kind \in Writers) =>
      \/ KvGet(kv', KeyOf(req[s])) = KvGet(kv, KeyOf(req[s]))
      \/ resp'[s].status = 200 /\ OwnWriteApplied(s)

\* C15: a request that fails at any await (kv.get, kv.set, kv.delete, hash)
\* leaves the record of its email as it was or as the completed operation
\* leaves it; every stored record has all six fields; register, update and
\* delete answer 200 only after their own write or delete is in the store.
C15_NoPartialWrite == []CompleteRecords /\ [][AppliedBeforeOk /\ AllOrNothing]_vars

\* The kv.set of a registration of a fresh email was rejected: the request is
\* answered 500 and the store has no record for the email.
C15_Witness ==
  \E s \in Slots :
    /\ Done(s)
    /\ req[s].kind = "register"
    /\ failed[s] = "reg_set"
    /\ resp[s].status = 500
    /\ overlap[s] = {}
    /\ req[s].body.email \notin DOMAIN kv
    /\ kv = pre[s]

KeyedKinds == {"register", "login", "update", "delete"}

\* The status a request gets when it runs alone on a store where its email has
\* the record rec (Null: no record).
StatusOnKey(r, rec) ==
  CASE r.kind = "register" ->
         IF ~ValidRegister(r) \/ rec # Null THEN 400 ELSE 200
    [] r.kind = "login" ->
         IF Missing(r.body.email) \/ Missing(r.body.password) THEN 400
         ELSE IF rec = Null THEN 404
         ELSE IF r.body.password = PlainOf(rec.password) THEN 200
         ELSE 401
    [] r.kind \in {"update", "delete"} -> IF rec = Null THEN 404 ELSE 200

\* The status of a request that no write to its own email overlapped is decided
\* by the record of its email alone, whatever ran on other emails meanwhile.
OwnKeyStatus ==
  \A s \in Slots :
    (Done(s) /\ req[s].kind \in KeyedKinds /\ QuietRun(s)) =>
      resp[s].status = StatusOnKey(req[s], KvGet(pre[s], KeyOf(req[s])))

\* A step of a request leaves the record, or the absence, of every other email
\* as it is; the arrival of a request changes no record.
OtherKeysUntouched ==
  /\ \A s \in Slots :
       (req[s].kind \in KeyedKinds /\ InFlight(s) /\ pc'[s] # pc[s]) =>
         \A k \in (DOMAIN kv \cup DOMAIN kv') \ {KeyOf(req[s])} :
           KvGet(kv', k) = KvGet(kv, k)
  /\ started' # started => kv' = kv

\* C16: operations on different emails are independent: a step of a register,
\* login, update or delete for email e leaves every other email's record or
\* absence unchanged, and the status of the request is the same whatever
\* requests on other emails are interleaved with it.
C16_KeysIndependent == []OwnKeyStatus /\ [][OtherKeysUntouched]_vars

\* A registration of one email and a delete of another ran concurrently (each
\* was issued before the other wrote) and both were answered 200.
C16_Witness ==
  \E s1, s2 \in Slots :
    /\ Done(s1) /\ Done(s2)
    /\ req[s1].kind = "register" /\ req[s1].body.email = Str(E2)
    /\ req[s2].kind = "delete" /\ req[s2].params = Str(E1)
    /\ DOMAIN pre[s1] = {Str(E1)}
    /\ DOMAIN pre[s2] = {Str(E1)}
    /\ resp[s1].status = 200
    /\ resp[s2].status = 200
    /\ DOMAIN kv = {Str(E2)}

\* ^[^@\s]+@[^@\s]+\.[^@\s]+$ : one "@", no white space, something before the
\* "@", and after it a "." that is neither first nor last.
WellFormedEmail(x) ==
  /\ x.t = "string"
  /\ LET v == x.v
          ats == {i \in 1..Len(v) : v[i] = "@"}
      IN  /\ Cardinality(ats) = 1
          /\ \A i \in 1..Len(v) : v[i] # " "
          /\ \A a \in ats :
               /\ a > 1
               /\ \E d \in (a + 2)..(Len(v) - 1) : v[d] = "."

\* The rule of section 4.1 for field f holds of value x.
RuleHolds(f, x) ==
  CASE f \in {"firstName", "lastName", "address"} -> NonBlankString(x)
    [] f = "email" -> WellFormedEmail(x)
    [] f = "password" -> LongPassword(x)
    [] f = "phone" -> WellFormedPhone(x)

\* The messages validateUserData has for field f.
MessagesOf(f) ==
  CASE f = "firstName" -> {ErrFirstName}
    [] f = "lastName" -> {ErrLastName}
    [] f = "email" -> {ErrEmailType, ErrEmailFormat}
    [] f = "password" -> {ErrPassword}
    [] f = "phone" -> {ErrPhoneShort, ErrPhoneChars}
    [] f = "address" -> {ErrAddress}

Violated(body) == {f \in Fields : ~RuleHolds(f, body[f])}

\* The errors an answered registration reports.
Details(s) == IF "details" \in DOMAIN resp[s].body THEN resp[s].body.details ELSE <<>>

\* C17: validateUserData checks every field on its own and collects all
\* violations: the result has an error for each of the six fields whose rule
\* is violated, whatever the other fields are, and is empty exactly when all
\* six rules hold; registerUser with a non-empty result answers 400 with the
\* collected errors and neither reads nor writes the store.
C17_ValidateCollectsAll ==
  \A s \in Slots :
    req[s].kind = "register" =>
      LET bad == Violated(req[s].body)
      IN  /\ Done(s) =>
               /\ \A f \in Fields :
                    (\E i \in 1..Len(Details(s)) : Details(s)[i] \in MessagesOf(f)) <=> f \in bad
               /\ Len(Details(s)) = Cardinality(bad)
               /\ Details(s) = validateUserData(req[s].body)
               /\ bad # {} =>
                    /\ resp[s].status = 400
                    /\ resp[s].body.error = "Validation error"
                    /\ kv = pre[s]
               /\ bad = {} => "details" \notin DOMAIN resp[s].body
          /\ InFlight(s) => bad = {}

\* A registration with a blank firstName, a malformed email and a phone with a
\* letter, its other fields valid, has been answered with these three errors.
C17_Witness ==
  \E s \in Slots :
    /\ Done(s)
    /\ req[s].kind = "register"
    /\ req[s].body = Body(Str(Blank), Str(N2), Str(BadEmail), Str(P2), Str(BadPhone), Str(N1))
    /\ resp[s].status = 400
    /\ Details(s) = <<ErrFirstName, ErrEmailFormat, ErrPhoneChars>>
    /\ kv = pre[s]

PublicFields == {"firstName", "lastName", "email", "phone", "address"}

\* The listing body has exactly one entry for each record of store, and the
\* entry has the five public fields with the stored values.
ListsExactly(body, store) ==
  /\ Len(body) = Cardinality(DOMAIN store)
  /\ \A k \in DOMAIN store :
       \E i \in 1..Len(body) :
         /\ DOMAIN body[i] = PublicFields
         /\ \A f \in PublicFields : body[i][f] = store[k][f]
         /\ body[i].email = k

\* A listing that no write overlapped answers 200 with the records that were
\* stored when it was issued; no step of a listing changes the store.
ListAnswer ==
  \A s \in Slots :
    /\ (req[s].kind = "list" /\ Answers(s) /\ QuietRun(s)) =>
         /\ resp'[s].status = 200
         /\ ListsExactly(resp'[s].body, pre[s])
    /\ (req[s].kind = "list" /\ InFlight(s) /\ pc'[s] # pc[s]) => kv' = kv

\* C18: getAllUsers run with no concurrent write answers 200 with exactly one
\* entry per stored record, the entry being the record without its password
\* hash and with every other field verbatim; it never changes the store, and
\* every call enumerates the store as it then is.
C18_ListIsStoreWithoutHashes == [][ListAnswer]_vars

\* A registration of a fresh email was answered 200, and a listing issued after
\* it has an entry for the new record next to the one that was there before.
C18_Witness ==
  \E s1, s2 \in Slots :
    /\ Done(s1) /\ Done(s2)
    /\ req[s1].kind = "register" /\ req[s1].body.email = Str(E2)
    /\ resp[s1].status = 200
    /\ DOMAIN pre[s1] = {Str(E1)}
    /\ req[s2].kind = "list"
    /\ overlap[s2] = {}
    /\ DOMAIN pre[s2] = {Str(E1), Str(E2)}
    /\ Len(resp[s2].body) = 2
    /\ resp[s2].body[2].firstName = req[s1].body.firstName

\* A step of a task that does not answer 200 changes nothing in the store, and
\* neither does the arrival of a request: whatever a request wrote, it wrote
\* in the step that answers 200.
FailureWritesNothing ==
  /\ \A s \in Slots :
       (InFlight(s) /\ pc'[s] # pc[s] /\ ~(pc'[s] = "done" /\ resp'[s].status = 200))
         => kv' = kv
  /\ started' # started => kv' = kv

FailureStatus == {400, 401, 404, 500}

\* A request is answered with a failure status or with 200, never both ways.
AnsweredOnce ==
  \A s \in Slots : Done(s) => resp[s].status \in FailureStatus \cup {200}

\* C19: a request answered 400, 401, 404 or 500 by register, login, update or
\* delete has written and deleted nothing: the store after the answer is the
\* store before the request, apart from what other requests did meanwhile.
C19_FailureLeavesStore == []AnsweredOnce /\ [][FailureWritesNothing]_vars

\* A registration of a stored email was answered 400 and an update whose kv.set
\* was rejected was answered 500; the store is as it was before both.
C19_Witness ==
  \E s1, s2 \in Slots :
    /\ Done(s1) /\ Done(s2)
    /\ req[s1].kind = "register"
    /\ resp[s1] = DuplicateEmail
    /\ req[s2].kind = "update"
    /\ resp[s2].status = 500
    /\ failed[s2] = "upd_set"
    /\ kv = pre[s1]
    /\ kv = pre[s2]

====
